---- MODULE Spec2Model ----
(***************************************************************************)
(* Model of app.py, the Streamlit front end of the SLE cardiovascular risk *)
(* calculator.  One action is one script run (Streamlit re-executes the    *)
(* whole script, top to bottom, on every user interaction).                *)
(*                                                                         *)
(* Numbers.  risk_5y is an IEEE-754 binary64 value.  A binary64 value is   *)
(* modelled exactly, as [m |-> digits, e |-> exponent]: the value is       *)
(* M * 2^e, M being the natural number whose digits in base 2^16 are m,    *)
(* least significant first.  m has no high zero digit and, in canonical    *)
(* form, M is odd and below 2^53.  Every operation rounds to nearest,      *)
(* ties to even, as the hardware does.  Survival probabilities are given   *)
(* as decimal literals n/10000 and converted to the nearest binary64;      *)
(* times are multiples of a quarter of a day below 2^20, on which binary64 *)
(* subtraction and comparison are exact, and are kept as integers (in      *)
(* quarters of a day).                                                     *)
(***************************************************************************)
EXTENDS Integers, Sequences, FiniteSets, TLC

VARIABLES
    artifact,   \* the content of model.pkl on disk
    cache,      \* the st.cache_resource entry of load_model
    loads,      \* the outcome of every joblib.load call, in order
    widgets,    \* the session's widget values
    screen,     \* what the most recent script run rendered
    run,        \* the locals of the most recent script run
    failed,     \* some evaluation of this process has raised
    arg,        \* the argument the classification or the lookup was applied to last
    out         \* its result

vars == <<artifact, cache, loads, widgets, screen, run, failed, arg, out>>

\* Python's None is the empty tuple, a value that is present a tuple of one
None == <<>>
Some(v) == <<v>>
IsNone(o) == Len(o) = 0
Value(o) == o[1]

\* ------------------------------------------------------------ binary64

Precision == 53
LimbBits == 16
Base == 2^LimbBits

Limb(b, i) == IF i >= 1 /\ i <= Len(b) THEN b[i] ELSE 0

\* digits without their high zero digits
RECURSIVE Trim(_)
Trim(b) == IF Len(b) = 0 \/ b[Len(b)] # 0 THEN b ELSE Trim(SubSeq(b, 1, Len(b) - 1))

\* the number of binary digits of M
BitLen(b) ==
    IF Len(b) = 0 THEN 0
    ELSE (LimbBits * (Len(b) - 1))
         + (CHOOSE k \in 1..LimbBits : 2^(k - 1) <= b[Len(b)] /\ b[Len(b)] < 2^k)

\* binary digit i of M, counted from 1 at the low end
Bit(b, i) == (Limb(b, (i - 1) \div LimbBits + 1) \div 2^((i - 1) % LimbBits)) % 2

\* M is no multiple of 2^k
LowBitsSet(b, k) == \E i \in 1..k : Bit(b, i) = 1

\* floor(M / 2^k)
ShiftRight(b, k) ==
    LET a == k \div LimbBits
        s == k % LimbBits
    IN  Trim([i \in 1..(Len(b) - a) |->
                 (Limb(b, i + a) \div 2^s)
                 + ((Limb(b, i + a + 1) % 2^s) * 2^(LimbBits - s))])

\* M * 2^k
ShiftLeft(b, k) ==
    LET a == k \div LimbBits
        s == k % LimbBits
    IN  Trim([i \in 1..(Len(b) + a + 1) |->
                 ((Limb(b, i - a) * 2^s) % Base)
                 + (Limb(b, i - a - 1) \div 2^(LimbBits - s))])

\* M, for M below the base squared
SmallVal(b) == Limb(b, 1) + Base * Limb(b, 2)

RECURSIVE SubLimbsFrom(_, _, _, _)
SubLimbsFrom(a, b, i, borrow) ==
    IF i > Len(a) THEN <<>>
    ELSE LET d == a[i] - Limb(b, i) - borrow
         IN  <<(d + Base) % Base>> \o SubLimbsFrom(a, b, i + 1, IF d < 0 THEN 1 ELSE 0)

\* a - b, for a >= b
SubLimbs(a, b) == Trim(SubLimbsFrom(a, b, 1, 0))

RECURSIVE MulLimbsFrom(_, _, _, _)
MulLimbsFrom(a, k, i, carry) ==
    IF i > Len(a) THEN IF carry = 0 THEN <<>> ELSE <<carry>>
    ELSE LET t == a[i] * k + carry
         IN  <<t % Base>> \o MulLimbsFrom(a, k, i + 1, t \div Base)

\* a * k, k a natural number below 2^14
MulLimbs(a, k) == Trim(MulLimbsFrom(a, k, 1, 0))

RECURSIVE IncLimbsFrom(_, _)
IncLimbsFrom(a, i) ==
    IF i > Len(a) THEN <<1>>
    ELSE IF a[i] + 1 < Base THEN <<a[i] + 1>> \o SubSeq(a, i + 1, Len(a))
    ELSE <<0>> \o IncLimbsFrom(a, i + 1)

IncLimbs(a) == IncLimbsFrom(a, 1)

\* the number of low zero binary digits of M, M not 0
LowZeros(b) == (CHOOSE i \in 1..BitLen(b) : Bit(b, i) = 1 /\ ~LowBitsSet(b, i - 1)) - 1

\* M * 2^e with z low binary digits of M dropped
Shifted(x, z) == [m |-> ShiftRight(x.m, z), e |-> x.e + z]

\* the canonical form of a value: M odd, or zero with exponent 0
Canon(x) ==
    IF Len(x.m) = 0 THEN [m |-> <<>>, e |-> 0] ELSE Shifted(x, LowZeros(x.m))

\* kept, or the next number up: up when the first digit dropped is 1 and
\* either a lower one is too or kept is odd
RoundUp(kept, guard, sticky) ==
    IF guard = 1 /\ (sticky \/ Limb(kept, 1) % 2 = 1) THEN IncLimbs(kept) ELSE kept

\* x with its k low binary digits rounded off, to nearest, ties to even
RoundOff(x, k) ==
    [m |-> RoundUp(ShiftRight(x.m, k), Bit(x.m, k), LowBitsSet(x.m, k - 1)), e |-> x.e + k]

\* round an exact value to 53 significant bits, to nearest, ties to even
RoundGiven(x, len) == Canon(IF len <= Precision THEN x ELSE RoundOff(x, len - Precision))

RoundNearestEven(x) == RoundGiven(x, BitLen(x.m))

\* the next count digits (base 2^16) of r/d after the point, r < d < 2^15,
\* least significant first, and what is left of r
RECURSIVE DivLimbs(_, _, _)
DivLimbs(r, d, count) ==
    IF count = 0 THEN [m |-> <<>>, r |-> r]
    ELSE LET rest == DivLimbs((r * Base) % d, d, count - 1)
         IN  [m |-> rest.m \o <<(r * Base) \div d>>, r |-> rest.r]

FracLimbs == 5

\* float("n/d") for a decimal literal: the binary64 value nearest to n/d,
\* for 0 = n or 1/d <= n/d < 2^16.  Five digits after the point hold 66
\* significant bits or more; a remainder is kept as the lowest bit.
WithSticky(f, whole) ==
    [m |-> Trim(<<IF f.r # 0 /\ f.m[1] % 2 = 0 THEN f.m[1] + 1 ELSE f.m[1]>>
                \o Tail(f.m) \o <<whole>>),
     e |-> -(FracLimbs * LimbBits)]

Float(n, d) == RoundNearestEven(WithSticky(DivLimbs(n % d, d, FracLimbs), n \div d))

\* x - y in binary64, for x >= y
SubAligned(x, y, e0) ==
    [m |-> SubLimbs(ShiftLeft(x.m, x.e - e0), ShiftLeft(y.m, y.e - e0)), e |-> e0]

FloatSub(x, y) == RoundNearestEven(SubAligned(x, y, IF x.e < y.e THEN x.e ELSE y.e))

\* x * k in binary64, k a small natural number
FloatMul(x, k) == RoundNearestEven([m |-> MulLimbs(x.m, k), e |-> x.e])

\* floor(x), for x below 2^31
Floor(x) ==
    IF x.e >= 0 THEN SmallVal(ShiftLeft(x.m, x.e)) ELSE SmallVal(ShiftRight(x.m, -x.e))

\* x < k, k an integer
FloatLess(x, k) == Floor(x) < k

\* format(x, ".1f"): the tenths of x, correctly rounded, ties to even
RoundTenths(y, f) ==
    IF f <= 0 THEN SmallVal(ShiftLeft(y, -f))
    ELSE SmallVal(RoundUp(ShiftRight(y, f), Bit(y, f), LowBitsSet(y, f - 1)))

Format1f(x) == RoundTenths(MulLimbs(x.m, 10), -x.e)

\* ------------------------------------------------------------ inputs

AgeMin == 18
AgeMax == 90
AgeDefault == 35

\* the slider positions the model explores: the ends, the default, and every
\* AgeStep-th year
AgeStep == 36
Ages == {a \in AgeMin..AgeMax : a = AgeDefault \/ (a - AgeMin) % AgeStep = 0}

Sexes == {"Female", "Male"}

FlagNames == {"hta", "diabetes", "dyslipidemia", "obesity", "smoking",
              "apl", "cutaneous", "joint"}

\* the widgets' values on a session's first run
DefaultWidgets ==
    [age |-> AgeDefault, sex |-> "Female", hta |-> FALSE, diabetes |-> FALSE,
     dyslipidemia |-> FALSE, obesity |-> FALSE, smoking |-> FALSE, apl |-> FALSE,
     cutaneous |-> FALSE, joint |-> FALSE]

\* ------------------------------------------------------------ encoding

int(b) == IF b THEN 1 ELSE 0

\* 87.8, in tenths
AgeDivisorTenths == 878

\* age / 87.8, as the fraction 10 * age / 878
AgeNormalized(age) == [num |-> 10 * age, den |-> AgeDivisorTenths]

FeaturesSwapped(w) ==
    << IF w.sex = "Male" THEN 1 ELSE 0, AgeNormalized(w.age),
       int(w.diabetes), int(w.hta), int(w.dyslipidemia), int(w.obesity),
       int(w.smoking), int(w.apl), int(w.cutaneous), int(w.joint) >>

\* the row of the feature array
Features(w) ==
    << IF w.sex = "Male" THEN 1 ELSE 0, AgeNormalized(w.age),
       int(w.hta), int(w.diabetes), int(w.dyslipidemia), int(w.obesity),
       int(w.smoking), int(w.apl), int(w.cutaneous), int(w.joint) >>

feature_names ==
    << "Male sex", "Age", "Hypertension", "Diabetes mellitus", "Dyslipidemia",
       "BMI >=25", "Smoking", "Antiphospholipid antibodies", "Cutaneous signs",
       "Joint involvement" >>

DataFrame(row, columns) == [row |-> row, columns |-> columns]

\* ------------------------------------------------------------ model.pkl

\* What model.pkl may hold.  "missing" and "corrupt" make joblib.load raise.
\* The others are fitted models, told apart by what predict_survival_function
\* returns: "stub" the survival function times = [0, 1826.25, 3652.5],
\* probs = [1.0, 0.9, 0.8] for every row; "tied" one with two times at the
\* same distance from five years; "graded" one whose probabilities fall with
\* the row's values, position by position; "picky" one that raises for a row
\* whose first value is 1; "empty" one with no time at all; "listy" one whose
\* y is a list, not an array.
Unloadable == {"missing", "corrupt"}
Models == {"stub", "tied", "graded", "picky", "empty", "listy"}
Artifacts == Unloadable \cup Models

\* a year, in quarters of a day
Year == 1461

GradedWeights == <<70, 0, 150, 180, 90, 40, 110, 160, 25, 30>>

RECURSIVE WeightedSum(_, _)
WeightedSum(row, i) ==
    IF i > Len(row) THEN 0
    ELSE (IF i = 2 THEN (300 * row[i].num) \div row[i].den ELSE GradedWeights[i] * row[i])
         + WeightedSum(row, i + 1)

\* the "graded" model's five-year event probability, in 1/10000
GradedHazard(row) == WeightedSum(row, 1)

StepFunction(x, y, isArray) == [raises |-> FALSE, x |-> x, y |-> y, array |-> isArray]

Raised == [raises |-> TRUE, x |-> <<>>, y |-> <<>>, array |-> TRUE]

\* model.predict_survival_function(X)[0]: x in quarters of a day, y in 1/10000
Predict(model, X) ==
    CASE model = "stub"   -> StepFunction(<<0, 5 * Year, 10 * Year>>, <<10000, 9000, 8000>>, TRUE)
      [] model = "tied"   -> StepFunction(<<0, 4 * Year, 6 * Year, 10 * Year>>,
                                          <<10000, 9600, 9300, 8500>>, TRUE)
      [] model = "graded" -> LET h == GradedHazard(X.row)
                             IN  StepFunction(<<0, 3 * Year, 5 * Year, 7 * Year>>,
                                              <<10000, 10000 - (h \div 2), 10000 - h,
                                                10000 - (2 * h)>>, TRUE)
      [] model = "picky"  -> IF X.row[1] = 1 THEN Raised
                             ELSE StepFunction(<<0, 5 * Year, 10 * Year>>,
                                               <<10000, 9300, 8600>>, TRUE)
      [] model = "empty"  -> StepFunction(<<>>, <<>>, TRUE)
      [] model = "listy"  -> StepFunction(<<0, 5 * Year, 10 * Year>>, <<10000, 9800, 9500>>, FALSE)
      [] OTHER            -> Raised

\* ------------------------------------------------------------ risk

\* 5 * 365.25 days, in quarters of a day
five_years == 7305

Abs(n) == IF n < 0 THEN -n ELSE n

\* np.abs(times - five_years)
Distances(times) == [i \in 1..Len(times) |-> Abs(times[i] - five_years)]

RECURSIVE ScanMinLast(_, _, _)
ScanMinLast(d, i, best) ==
    IF i > Len(d) THEN best
    ELSE ScanMinLast(d, i + 1, IF d[i] <= d[best] THEN i ELSE best)

\* argmin's scan of a non-empty array: an element replaces the least one found
\* so far only when it is smaller
RECURSIVE ScanMin(_, _, _)
ScanMin(d, i, best) ==
    IF i > Len(d) THEN best
    ELSE ScanMin(d, i + 1, IF d[i] < d[best] THEN i ELSE best)

ArgMinLast(times) == ScanMinLast(Distances(times), 2, 1) - 1

\* np.abs(times - five_years).argmin(), an index counted from 0
ArgMin(times) == ScanMin(Distances(times), 2, 1) - 1

One == Float(1, 1)

\* (1 - survival_5y) * 100, survival_5y the literal s/10000
Risk5y(s) == FloatMul(FloatSub(One, Float(s, 10000)), 100)

RiskCategoryInclusive(risk_5y) ==
    IF ~FloatLess(risk_5y, 5) /\ risk_5y # Float(5, 1) THEN
        IF ~FloatLess(risk_5y, 10) /\ risk_5y # Float(10, 1) THEN "HIGH" ELSE "MEDIUM"
    ELSE "LOW"

RiskCategoryShifted(risk_5y) ==
    IF FloatLess(risk_5y, 10) THEN "LOW"
    ELSE IF FloatLess(risk_5y, 20) THEN "MEDIUM"
    ELSE "HIGH"

RiskCategory(risk_5y) ==
    IF FloatLess(risk_5y, 5) THEN "LOW"
    ELSE IF FloatLess(risk_5y, 10) THEN "MEDIUM"
    ELSE "HIGH"

\* ------------------------------------------------------------ load_model

\* joblib.load('model.pkl'), as call number n of this process: the handle, or
\* raised
JoblibLoad(art, n) ==
    [raised |-> art \in Unloadable, handle |-> [id |-> n, model |-> art]]

\* try: return the model; except: st.error(...), return None.  The entry
\* cached, and the call recorded.
Store(l, got) ==
    [cache |-> Some([value |-> IF got.raised THEN None ELSE Some(got.handle),
                     error |-> got.raised]),
     loads |-> Append(l, got)]

load_model_uncached(c, l, art) == Store(l, JoblibLoad(art, Len(l) + 1))

\* load_model() under st.cache_resource: the body runs on the first call of
\* the process; its return value (None too) and the st.error it showed are
\* kept and replayed on every later call.  c is the cache entry, None before
\* the first call.
load_model(c, l, art) ==
    IF ~IsNone(c) THEN [cache |-> c, loads |-> l]
    ELSE Store(l, JoblibLoad(art, Len(l) + 1))

\* ------------------------------------------------------------ the script

\* nothing rendered
NoScreen ==
    [page |-> FALSE, loadError |-> FALSE, warning |-> FALSE, form |-> FALSE,
     results |-> FALSE, riskBox |-> None, compChart |-> None,
     survChart |-> None, export |-> None, error |-> FALSE]

\* the locals of a run that evaluated nothing
NoRun ==
    [model |-> None, calculate |-> FALSE, X |-> None, predicted |-> FALSE,
     idx_5y |-> None, risk_5y |-> None, risk_category |-> None]

AlwaysMain(model) == TRUE

\* if model is not None
MainBranch(model) == ~IsNone(model)

\* the risk box: the percentage to one decimal (in tenths) and the label
RiskBox(risk_5y, risk_category) ==
    [percent |-> Format1f(risk_5y), category |-> risk_category]

\* the comparison chart's three bar labels, in tenths
ComparisonChart(risk_5y) == <<Format1f(risk_5y), 57, 27>>

\* the event curve: its points (x in quarters of a day, y the survival
\* probability in 1/10000) and the five-year marker's annotation
SurvivalChart(x, y, risk_5y) == [x |-> x, y |-> y, marker |-> Format1f(risk_5y)]

YesNo(b) == IF b THEN "Yes" ELSE "No"

SummaryMixedUp(w, risk_5y, risk_category) ==
    [age |-> w.age, sex |-> w.sex, hta |-> YesNo(w.hta), diabetes |-> YesNo(w.hta),
     dyslipidemia |-> YesNo(w.dyslipidemia), obesity |-> YesNo(w.obesity),
     smoking |-> YesNo(w.smoking), apl |-> YesNo(w.apl),
     cutaneous |-> YesNo(w.cutaneous), joint |-> YesNo(w.joint),
     percent |-> Format1f(risk_5y), category |-> risk_category]

\* the export's text, field by field (the time stamp left out)
Summary(w, risk_5y, risk_category) ==
    [age |-> w.age, sex |-> w.sex, hta |-> YesNo(w.hta), diabetes |-> YesNo(w.diabetes),
     dyslipidemia |-> YesNo(w.dyslipidemia), obesity |-> YesNo(w.obesity),
     smoking |-> YesNo(w.smoking), apl |-> YesNo(w.apl),
     cutaneous |-> YesNo(w.cutaneous), joint |-> YesNo(w.joint),
     percent |-> Format1f(risk_5y), category |-> risk_category]

\* what a run leaves behind: the cache entry, the page, its locals, and
\* whether the except branch ran
Outcome(c, shown, locals, raised) ==
    [cache |-> c, screen |-> shown, run |-> locals, raised |-> raised]

ExceptClears(c, shown, locals) == Outcome(None, [shown EXCEPT !.error = TRUE], locals, TRUE)

\* except Exception as e: st.error(...); st.info(...).  What the try block
\* rendered before the exception stays on the page; the cache entry c is not
\* touched.
Except(c, shown, locals) == Outcome(c, [shown EXCEPT !.error = TRUE], locals, TRUE)

\* the results header, the risk box and the comparison chart
ShowRisk(base, risk_5y, risk_category) ==
    [base EXCEPT !.results = TRUE,
                 !.riskBox = Some(RiskBox(risk_5y, risk_category)),
                 !.compChart = Some(ComparisonChart(risk_5y))]

\* the event curve and the export, after them
ShowRest(shown, w, surv, risk_5y, risk_category) ==
    [shown EXCEPT !.survChart = Some(SurvivalChart(surv.x, surv.y, risk_5y)),
                  !.export = Some(Summary(w, risk_5y, risk_category))]

\* the display of the result; (1 - survival_probs) * 100 raises TypeError when
\* survival_probs is a list
Display(c, w, base, locals, surv, risk_5y, risk_category) ==
    IF ~surv.array
    THEN Except(c, ShowRisk(base, risk_5y, risk_category), locals)
    ELSE Outcome(c, ShowRest(ShowRisk(base, risk_5y, risk_category), w, surv,
                             risk_5y, risk_category),
                 locals, FALSE)

Classified(locals, risk_5y, risk_category) ==
    [locals EXCEPT !.risk_5y = Some(risk_5y), !.risk_category = Some(risk_category)]

\* the risk category, and the display
Classify(c, w, base, locals, surv, risk_5y, risk_category) ==
    Display(c, w, base, Classified(locals, risk_5y, risk_category), surv,
            risk_5y, risk_category)

\* survival_probs[idx_5y] (IndexError beyond the end) and the risk
ReadRisk(c, w, base, locals, surv, idx_5y) ==
    IF idx_5y + 1 > Len(surv.y)
    THEN Except(c, base, [locals EXCEPT !.idx_5y = Some(idx_5y)])
    ELSE Classify(c, w, base, [locals EXCEPT !.idx_5y = Some(idx_5y)], surv,
                  Risk5y(surv.y[idx_5y + 1]),
                  RiskCategory(Risk5y(surv.y[idx_5y + 1])))

\* the try block once the model has answered: a model that raised, or argmin
\* of an empty array, ends it
Derive(c, w, base, locals, surv) ==
    IF surv.raises \/ Len(surv.x) = 0
    THEN Except(c, base, locals)
    ELSE ReadRisk(c, w, base, locals, surv, ArgMin(surv.x))

\* model.predict_survival_function(X)[0]; a call on None raises
Invoke(model, X) == IF IsNone(model) THEN Raised ELSE Predict(Value(model).model, X)

Encoded(model, X) ==
    [NoRun EXCEPT !.model = model, !.calculate = TRUE, !.X = Some(X),
                  !.predicted = ~IsNone(model)]

Inferred(c, model, w, base, X) ==
    Derive(c, w, base, Encoded(model, X), Invoke(model, X))

\* the body of "if calculate:": the encoding, the model call and the display.
\* c is the cache entry, model the handle (or None), base the page so far.
Evaluate(c, model, w, base) ==
    Inferred(c, model, w, base, DataFrame(Features(w), feature_names))

\* the rest of the script, after model = load_model()
Main(c, model, error, w, calculate) ==
    IF ~MainBranch(model)
    THEN Outcome(c, [NoScreen EXCEPT !.page = TRUE, !.loadError = error, !.warning = TRUE],
                 NoRun, FALSE)
    ELSE IF ~calculate
    THEN Outcome(c, [NoScreen EXCEPT !.page = TRUE, !.loadError = error, !.form = TRUE],
                 [NoRun EXCEPT !.model = model], FALSE)
    ELSE Evaluate(c, model, w,
                  [NoScreen EXCEPT !.page = TRUE, !.loadError = error, !.form = TRUE])

\* One run of the script, top to bottom, from cache entry c
RunScript(c, w, calculate) == Main(c, Value(c).value, Value(c).error, w, calculate)

Commit(r, l, w) ==
    /\ cache' = r.cache
    /\ loads' = l
    /\ widgets' = w
    /\ screen' = r.screen
    /\ run' = r.run
    /\ failed' = (failed \/ r.raised)
    /\ UNCHANGED <<artifact, arg, out>>

Loaded(lm, w, calculate) == Commit(RunScript(lm.cache, w, calculate), lm.loads, w)

\* the state after a run of the script with widget values w
Rerun(w, calculate) == Loaded(load_model(cache, loads, artifact), w, calculate)

\* ------------------------------------------------------------ actions

\* A browser opens (or reloads) the page: a session starts with the widgets'
\* defaults and the script runs.
Open == Rerun(DefaultWidgets, FALSE)

\* The slider is moved.
SetAge(a) ==
    /\ screen.form
    /\ a # widgets.age
    /\ Rerun([widgets EXCEPT !.age = a], FALSE)

\* The other sex is chosen.
SetSex(s) ==
    /\ screen.form
    /\ s # widgets.sex
    /\ Rerun([widgets EXCEPT !.sex = s], FALSE)

\* A checkbox is ticked or cleared.
Toggle(f) ==
    /\ screen.form
    /\ Rerun([widgets EXCEPT ![f] = ~@], FALSE)

\* "Calculate Risk" is pressed.
Calculate ==
    /\ screen.form
    /\ Rerun(widgets, TRUE)

\* "Export Results" is pressed: the summary on the page is downloaded, and
\* the script runs again.
Export ==
    /\ ~IsNone(screen.export)
    /\ Rerun(widgets, FALSE)

\* ------------------------------------------------------------ functions

\* The classification and the lookup applied to inputs of their own.

MaxLen == 3

\* times, in quarters of a day
TimeGrid == {0, 4 * Year, 5 * Year, 6 * Year, 7 * Year}

TimeSeqs == UNION {[1..k -> TimeGrid] : k \in 1..MaxLen}

\* risk percentages, as decimal literals in 1/1000
RiskLiterals ==
    {0, 1, 2500, 4949, 4950, 4951, 4999, 5000, 5001, 5050, 7500, 9949, 9950, 9951,
     9999, 10000, 10001, 10050, 25000, 100000}

NoArg == [op |-> "none", r |-> 0, times |-> <<>>]
NoOut == [category |-> "", idx |-> 0]

\* the risk category of the risk n/1000
ClassifyLiteral(n) ==
    /\ arg' = [NoArg EXCEPT !.op = "category", !.r = n]
    /\ out' = [NoOut EXCEPT !.category = RiskCategory(Float(n, 1000))]
    /\ UNCHANGED <<artifact, cache, loads, widgets, screen, run, failed>>

\* the five-year index of the times ts
Lookup(ts) ==
    /\ arg' = [NoArg EXCEPT !.op = "argmin", !.times = ts]
    /\ out' = [NoOut EXCEPT !.idx = ArgMin(ts)]
    /\ UNCHANGED <<artifact, cache, loads, widgets, screen, run, failed>>

Init ==
    /\ artifact \in Artifacts
    /\ cache = None
    /\ loads = <<>>
    /\ widgets = DefaultWidgets
    /\ screen = NoScreen
    /\ run = NoRun
    /\ failed = FALSE
    /\ arg = NoArg
    /\ out = NoOut

Next ==
    \/ Open
    \/ \E a \in Ages : SetAge(a)
    \/ \E s \in Sexes : SetSex(s)
    \/ \E f \in FlagNames : Toggle(f)
    \/ Calculate
    \/ Export

Spec == Init /\ [][Next]_vars

InitFunctions == Init /\ artifact = "stub"

NextFunctions ==
    \/ \E n \in RiskLiterals : ClassifyLiteral(n)
    \/ \E ts \in TimeSeqs : Lookup(ts)

SpecFunctions == InitFunctions /\ [][NextFunctions]_vars

\* ------------------------------------------------------------ claims

\* C1: the category depends on the risk percentage alone: below 5 it is LOW,
\* from 5 and below 10 MEDIUM, from 10 HIGH (4.999 LOW, 5.0 MEDIUM, 9.999
\* MEDIUM, 10.0 HIGH).
C1_CategoryByThresholds ==
    arg.op = "category" =>
        out.category = (IF arg.r < 5000 THEN "LOW"
                        ELSE IF arg.r < 10000 THEN "MEDIUM" ELSE "HIGH")

C1_Witness ==
    arg.op = "category" /\ arg.r = 5000 /\ out.category = "MEDIUM"

\* C2: the row handed to the model has 10 values: 1 for Male and 0 for Female,
\* the age divided by 87.8, then 1 or 0 for each of the eight flags, in the
\* order hypertension, diabetes, dyslipidemia, obesity, smoking, apl,
\* cutaneous, joint.
C2_FeatureVector ==
    ~IsNone(run.X) =>
        LET row  == Value(run.X).row
            bit(b) == IF b THEN 1 ELSE 0
        IN  /\ Len(row) = 10
            /\ row[1] = (IF widgets.sex = "Male" THEN 1 ELSE 0)
            /\ row[2].den > 0
            /\ row[2].num * 878 = 10 * widgets.age * row[2].den
            /\ row[3] = bit(widgets.hta)
            /\ row[4] = bit(widgets.diabetes)
            /\ row[5] = bit(widgets.dyslipidemia)
            /\ row[6] = bit(widgets.obesity)
            /\ row[7] = bit(widgets.smoking)
            /\ row[8] = bit(widgets.apl)
            /\ row[9] = bit(widgets.cutaneous)
            /\ row[10] = bit(widgets.joint)

C2_Witness ==
    /\ ~IsNone(run.X)
    /\ widgets.sex = "Male" /\ widgets.age = AgeMax
    /\ widgets.diabetes /\ ~widgets.hta /\ widgets.joint /\ ~widgets.cutaneous

\* C3: with the stub model (times 0, 1826.25, 3652.5; probabilities 1.0, 0.9,
\* 0.8) every evaluation takes the entry at 1826.25 and yields the risk 10.0
\* and the category HIGH.
C3_StubYieldsTenHigh ==
    (artifact = "stub" /\ run.calculate) =>
        /\ run.idx_5y = Some(1)
        /\ run.risk_5y = Some(Float(10, 1))
        /\ run.risk_category = Some("HIGH")

\* C4: the index taken for the five-year risk is one whose time is nearest to
\* 1826.25 days, and the lowest of them when several are equally near.
C4_NearestLowestIndex ==
    arg.op = "argmin" =>
        LET i == out.idx + 1
            far(j) == IF arg.times[j] < five_years THEN five_years - arg.times[j]
                      ELSE arg.times[j] - five_years
        IN  /\ i \in 1..Len(arg.times)
            /\ \A j \in 1..Len(arg.times) : far(i) <= far(j)
            /\ \A j \in 1..(i - 1) : far(j) # far(i)

C4_Witness ==
    /\ arg.op = "argmin"
    /\ arg.times = <<0, 6 * Year, 4 * Year>>
    /\ out.idx = 1

\* C5: when loading model.pkl fails, load_model returns None, every run ends
\* with the warning on the page and without the form, and no run calls the
\* model: Calculate cannot be pressed.
C5_LoadFailureDisablesEvaluation ==
    /\ (artifact \in Unloadable /\ screen.page) =>
           ~IsNone(cache) /\ IsNone(Value(cache).value)
    /\ (~IsNone(cache) /\ IsNone(Value(cache).value)) =>
           /\ screen.page /\ screen.warning
           /\ ~screen.form
           /\ ~run.calculate /\ ~run.predicted
           /\ IsNone(screen.riskBox) /\ IsNone(screen.export)

C5_Witness ==
    /\ artifact = "corrupt"
    /\ screen.page /\ screen.warning
    /\ Len(loads) = 1 /\ loads[1].raised

\* C6: an evaluation shows either the whole result (risk percentage,
\* category, comparison chart, event curve, export) and no error message, or
\* the error message and no part of the result.
C6_NoPartialResult ==
    /\ screen.error =>
           /\ ~screen.results
           /\ IsNone(screen.riskBox) /\ IsNone(screen.compChart)
           /\ IsNone(screen.survChart) /\ IsNone(screen.export)
    /\ (~screen.error /\ run.calculate) =>
           /\ screen.results
           /\ ~IsNone(screen.riskBox) /\ ~IsNone(screen.compChart)
           /\ ~IsNone(screen.survChart) /\ ~IsNone(screen.export)

\* C7: an evaluation that raised leaves no trace: a later evaluation that
\* succeeds shows what the same inputs show in a process where nothing has
\* failed, and the cached handle is still the one loaded first.
C7_FailureLeavesNoTrace ==
    (failed /\ run.calculate /\ ~screen.error) =>
        LET fresh == load_model(None, <<>>, artifact)
        IN  /\ screen = RunScript(fresh.cache, widgets, TRUE).screen
            /\ run = RunScript(fresh.cache, widgets, TRUE).run
            /\ cache = fresh.cache
            /\ loads = fresh.loads

C7_Witness ==
    /\ failed
    /\ run.calculate /\ ~screen.error
    /\ ~IsNone(screen.export)

\* C8: an export on the page carries the inputs the widgets hold and the risk
\* percentage and category of the evaluation of this run, as the risk box
\* shows them.
C8_ExportIsCurrent ==
    ~IsNone(screen.export) =>
        LET e == Value(screen.export)
            yes(b) == IF b THEN "Yes" ELSE "No"
        IN  /\ run.calculate
            /\ e.age = widgets.age /\ e.sex = widgets.sex
            /\ e.hta = yes(widgets.hta) /\ e.diabetes = yes(widgets.diabetes)
            /\ e.dyslipidemia = yes(widgets.dyslipidemia)
            /\ e.obesity = yes(widgets.obesity) /\ e.smoking = yes(widgets.smoking)
            /\ e.apl = yes(widgets.apl) /\ e.cutaneous = yes(widgets.cutaneous)
            /\ e.joint = yes(widgets.joint)
            /\ e.category = Value(run.risk_category)
            /\ ~IsNone(screen.riskBox)
            /\ e.percent = Value(screen.riskBox).percent
            /\ e.category = Value(screen.riskBox).category

C8_Witness ==
    /\ ~IsNone(screen.export)
    /\ failed
    /\ widgets.hta /\ ~widgets.diabetes /\ widgets.age # AgeDefault

\* C9: joblib.load is called at most once in a process, and every run after a
\* load that succeeded works with the handle that call returned.
C9_LoadedOnce ==
    /\ Len(loads) <= 1
    /\ screen.page => Len(loads) = 1
    /\ ~IsNone(run.model) =>
           /\ ~loads[1].raised
           /\ run.model = Some(loads[1].handle)
           /\ Value(cache).value = run.model

C9_Witness ==
    /\ Len(loads) = 1
    /\ failed
    /\ run.calculate /\ ~IsNone(screen.export)
    /\ run.model = Some(loads[1].handle)

Shown == {Value(b) : b \in {b \in {screen.riskBox, screen.export} : ~IsNone(b)}}

\* C10 as claimed: a result shown as 5.0% or more is never labelled LOW, one
\* shown as 10.0% or more never MEDIUM.
C10_LabelAgreesWithShown ==
    \A b \in Shown :
        /\ b.percent >= 50 => b.category # "LOW"
        /\ b.percent >= 100 => b.category # "MEDIUM"

\* C10 as amended: the label goes by the risk before rounding, so it agrees
\* with the percentage shown except at the two thresholds: up to 4.9% is LOW,
\* 5.1% to 9.9% MEDIUM, from 10.1% HIGH; 5.0% is LOW or MEDIUM and 10.0%
\* MEDIUM or HIGH.
C10_LabelAgreesWithinRounding ==
    \A b \in Shown :
        /\ b.percent <= 49 => b.category = "LOW"
        /\ b.percent = 50 => b.category \in {"LOW", "MEDIUM"}
        /\ (51 <= b.percent /\ b.percent <= 99) => b.category = "MEDIUM"
        /\ b.percent = 100 => b.category \in {"MEDIUM", "HIGH"}
        /\ b.percent >= 101 => b.category = "HIGH"

C10_Witness ==
    /\ ~IsNone(screen.riskBox) /\ ~IsNone(screen.export)
    /\ Value(screen.riskBox).percent = 50
    /\ Value(screen.riskBox).category = "LOW"
====
